---- MODULE Spec2Model ----
(***************************************************************************)
(* Model of my-agent/agent.py: a chat session (main) that drives one turn  *)
(* at a time through prompt_ai, which asks the completion client for a     *)
(* reply, dispatches the requested tool calls to create_asana_task and     *)
(* asks for a second completion.                                           *)
(*                                                                         *)
(* Texts the code only passes around are TLA+ strings.  Texts the code     *)
(* inspects (the input line, the task name, the due date) are sequences of *)
(* one-character strings, and a JSON arguments payload is a sequence of    *)
(* tokens, so that strip, lower, strptime and json.loads are computed.     *)
(***************************************************************************)
EXTENDS Integers, Sequences, FiniteSets, TLC

VARIABLES
    pc,            \* position of the process: module initialisation, main, prompt_ai
    env,           \* the environment variables that are set
    exit_code,     \* exit status of the process, Running until it ends
    messages,      \* the conversation history
    tool_calls,    \* prompt_ai: the batch being processed
    idx,           \* prompt_ai: number of calls of the batch already processed
    ret,           \* how prompt_ai left: a returned value or a raised exception
    completions,   \* outcomes of the completion calls made in the current turn
                   \* (before the first turn, of the probe at startup):
                   \* "APIError", "no_choices", "tool_calls" or the reply's content
    dispatched,    \* tool calls of the batch taken up in the current turn
    backend_calls, \* outcomes of the create_task calls issued in the current turn
    turn_base,     \* length of the history when prompt_ai was entered
    turns,         \* turns completed: calls of prompt_ai that main has dealt with
    harness,       \* arguments and outcome of a stand-alone create_asana_task call
    last_read      \* what the last call of input() gave: a line or an exception

vars == <<pc, env, exit_code, messages, tool_calls, idx, ret, completions,
          dispatched, backend_calls, turn_base, turns, harness, last_read>>

\* ------------------------------------------------------------------ bounds
\* The history never grows beyond MaxMessages messages: a turn is started,
\* and a batch of tool calls is accepted, only if the whole turn fits.
MaxMessages == 7

\* ------------------------------------------------------- texts and values
None == "None"

\* exit_code while the process runs
Running == -1

ArgsErrorText == "I encountered an error processing the function arguments."

ExecErrorText == "I encountered an error while trying to execute the requested action."

SecondErrorText == "I encountered an error while processing the response."

RequestErrorText == "I encountered an error while processing your request. Please try again."

ApiExceptionText == "Exception when calling TasksApi->create_task: e"

ApiResponseText == "json.dumps(api_response, indent=2)"

ReplyText == "reply"

SystemText == "You are a personal assistant who helps manage tasks in Asana."

\* str(datetime.now().date()) on the day of the session
Today == <<"2", "0", "2", "5", "-", "0", "1", "-", "1", "5">>

\* Exceptions.  KeyboardInterrupt is the one that is no subclass of Exception.
Exceptions == {"ValueError", "JSONDecodeError", "TypeError", "ApiException",
               "ConnectionError", "APIError", "IndexError", "EOFError",
               "KeyboardInterrupt"}

IsException(e) == e \in Exceptions \ {"KeyboardInterrupt"}

IsJSONDecodeError(e) == e = "JSONDecodeError"

IsApiException(e) == e = "ApiException"

Return(v) == [kind |-> "return", value |-> v, exc |-> None]

Raise(e) == [kind |-> "raise", value |-> None, exc |-> e]

NoRet == [kind |-> "none", value |-> None, exc |-> None]

\* ------------------------------------------------------------- str methods
Whitespace == {" ", "\t"}

RECURSIVE lstrip(_)
lstrip(s) ==
    IF s # <<>> /\ Head(s) \in Whitespace THEN lstrip(Tail(s)) ELSE s

RECURSIVE rstrip(_)
rstrip(s) ==
    IF s # <<>> /\ s[Len(s)] \in Whitespace
    THEN rstrip(SubSeq(s, 1, Len(s) - 1))
    ELSE s

\* the text taken as it is
strip_Missing(s) == s

strip(s) == rstrip(lstrip(s))

lower_char(c) ==
    CASE c = "Q" -> "q"
      [] c = "H" -> "h"
      [] OTHER -> c

\* a comparison that minds the case
lower_Identity(s) == s

lower(s) == [i \in 1..Len(s) |-> lower_char(s[i])]

\* ----------------------------------------------- datetime.strptime, %Y-%m-%d
Digits == {"0", "1", "2", "3", "4", "5", "6", "7", "8", "9"}

DigitVal(c) ==
    CASE c = "0" -> 0 [] c = "1" -> 1 [] c = "2" -> 2 [] c = "3" -> 3
      [] c = "4" -> 4 [] c = "5" -> 5 [] c = "6" -> 6 [] c = "7" -> 7
      [] c = "8" -> 8 [] c = "9" -> 9

AllDigits(s) == \A i \in 1..Len(s) : s[i] \in Digits

RECURSIVE NumVal(_)
NumVal(s) ==
    IF s = <<>> THEN 0
    ELSE NumVal(SubSeq(s, 1, Len(s) - 1)) * 10 + DigitVal(s[Len(s)])

IsLeap(y) == (y % 4 = 0 /\ y % 100 # 0) \/ y % 400 = 0

DaysInMonth(y, m) ==
    IF m = 2 THEN (IF IsLeap(y) THEN 29 ELSE 28)
    ELSE IF m \in {4, 6, 9, 11} THEN 30 ELSE 31

\* %m is 1[0-2]|0[1-9]|[1-9]
MonthField(s) == Len(s) \in 1..2 /\ AllDigits(s) /\ NumVal(s) \in 1..12

\* %d is 3[01]|[12]\d|0[1-9]|[1-9]| [1-9]
DayField(s) ==
    \/ Len(s) \in 1..2 /\ AllDigits(s) /\ NumVal(s) \in 1..31
    \/ Len(s) = 2 /\ s[1] = " " /\ s[2] \in Digits \ {"0"}

DayVal(s) == IF s[1] = " " THEN DigitVal(s[2]) ELSE NumVal(s)

\* TRUE when datetime.strptime(s, '%Y-%m-%d') returns, FALSE when it raises
\* ValueError: the whole text must match the format and name a real date.
strptime(s) ==
    LET dashes == {i \in 1..Len(s) : s[i] = "-"} IN
    /\ Cardinality(dashes) = 2
    /\ LET p1 == CHOOSE i \in dashes : \A j \in dashes : i <= j
           p2 == CHOOSE i \in dashes : \A j \in dashes : j <= i
           Y == SubSeq(s, 1, p1 - 1)
           M == SubSeq(s, p1 + 1, p2 - 1)
           D == SubSeq(s, p2 + 1, Len(s))
       IN  /\ Len(Y) = 4 /\ AllDigits(Y) /\ NumVal(Y) >= 1
           /\ MonthField(M)
           /\ DayField(D)
           /\ DayVal(D) <= DaysInMonth(NumVal(Y), NumVal(M))

\* -------------------------------------------------------------- json.loads
\* A payload is a sequence of tokens [t, v]; a value is a token or a dict.
\* v is the text of a string and the mapping of a dict, and <<>> otherwise.
Tok(t) == [t |-> t, v |-> <<>>]

Str(chars) == [t |-> "str", v |-> chars]

Null == [t |-> "null", v |-> <<>>]

Dict(d) == [t |-> "dict", v |-> d]

List == [t |-> "list", v |-> <<>>]

EmptyDict == [k \in {} |-> Null]

Put(d, key, val) ==
    [k \in DOMAIN d \cup {key} |-> IF k = key THEN val ELSE d[k]]

Parsed(value) == [ok |-> TRUE, value |-> value]

JSONDecodeError == [ok |-> FALSE, value |-> Null]

\* The members of an object from token i on: key, colon, scalar value, then a
\* comma and more members or the closing brace, which must be the last token.
RECURSIVE ParseMembers(_, _, _)
ParseMembers(toks, i, d) ==
    IF i + 3 > Len(toks) THEN JSONDecodeError
    ELSE IF \/ toks[i].t # "str"
            \/ toks[i + 1].t # "colon"
            \/ toks[i + 2].t \notin {"str", "null"}
    THEN JSONDecodeError
    ELSE LET d2 == Put(d, toks[i].v, toks[i + 2]) IN
         IF toks[i + 3].t = "rbrace"
         THEN (IF i + 3 = Len(toks) THEN Parsed(Dict(d2)) ELSE JSONDecodeError)
         ELSE IF toks[i + 3].t = "comma"
         THEN ParseMembers(toks, i + 4, d2)
         ELSE JSONDecodeError

json_loads(toks) ==
    IF toks = <<>> THEN JSONDecodeError
    ELSE IF toks[1].t = "lbrace"
    THEN (IF Len(toks) >= 2 /\ toks[2].t = "rbrace"
          THEN (IF Len(toks) = 2 THEN Parsed(Dict(EmptyDict)) ELSE JSONDecodeError)
          ELSE ParseMembers(toks, 2, EmptyDict))
    ELSE IF toks[1].t = "lbracket"
    THEN (IF Len(toks) = 2 /\ toks[2].t = "rbracket"
          THEN Parsed(List) ELSE JSONDecodeError)
    ELSE IF toks[1].t \in {"str", "null"}
    THEN (IF Len(toks) = 1 THEN Parsed(toks[1]) ELSE JSONDecodeError)
    ELSE JSONDecodeError

\* ------------------------------------------------------- create_asana_task
TodayWord == <<"t", "o", "d", "a", "y">>

\* Outcomes of tasks_api_instance.create_task: the created task, an
\* ApiException reported by the client, or another failure (no connection).
BackendOutcomes == {"created", "ApiException", "ConnectionError"}

\* `not value` for a str or None
Falsy(value) == value.t = "null" \/ value.v = <<>>

\* only a variable that is absent counts as not set
Unset_NoneOnly(setting) == setting = None

\* `not project_id` for the result of os.getenv
Unset(setting) == setting = None \/ setting = ""

Outcome(r, issued) == [ret |-> r, issued |-> issued]

\* except ApiException as e
CreateTaskHandler(e) ==
    IF IsApiException(e) THEN Return(ApiExceptionText) ELSE Raise(e)

\* try: tasks_api_instance.create_task(task_body, {})
CreateTaskCall(backend) ==
    IF backend = "created" THEN Return(ApiResponseText)
    ELSE CreateTaskHandler(backend)

\* The due date after `if due_on == "today"`: a Return of the resolved date,
\* or the exception the validation raises.
ResolveDueOn(due_on) ==
    IF due_on.t = "str" /\ due_on.v = TodayWord THEN Return(Today)
    ELSE IF due_on.t # "str" THEN Raise("TypeError")
    ELSE IF strptime(due_on.v) THEN Return(due_on.v)
    ELSE Raise("ValueError")

create_asana_task(task_name, due_on, project_id, backend) ==
    IF Falsy(task_name) \/ strip(task_name.v) = <<>>
    THEN Outcome(Raise("ValueError"), FALSE)
    ELSE IF ResolveDueOn(due_on).kind = "raise"
    THEN Outcome(ResolveDueOn(due_on), FALSE)
    ELSE IF Unset(project_id)
    THEN Outcome(Raise("ValueError"), FALSE)
    ELSE Outcome(CreateTaskCall(backend), TRUE)

\* --------------------------------------------------------------- prompt_ai
TaskNameParam == <<"t", "a", "s", "k", "_", "n", "a", "m", "e">>

DueOnParam == <<"d", "u", "e", "_", "o", "n">>

available_functions == {"create_asana_task"}

Message(role, content, calls, id, name) ==
    [role |-> role, content |-> content, tool_calls |-> calls,
     tool_call_id |-> id, name |-> name]

\* function_to_call(**function_args): the keyword arguments must be a
\* mapping whose keys are parameters of create_asana_task, task_name among
\* them; due_on defaults to "today".
CallFunction(function_args, project_id, backend) ==
    IF function_args.t # "dict"
    THEN Outcome(Raise("TypeError"), FALSE)
    ELSE IF \/ ~(DOMAIN function_args.v \subseteq {TaskNameParam, DueOnParam})
            \/ TaskNameParam \notin DOMAIN function_args.v
    THEN Outcome(Raise("TypeError"), FALSE)
    ELSE create_asana_task(
             function_args.v[TaskNameParam],
             IF DueOnParam \in DOMAIN function_args.v
             THEN function_args.v[DueOnParam] ELSE Str(TodayWord),
             project_id, backend)

\* The try block of one iteration of `for tool_call in tool_calls`, up to the
\* value of function_response or the exception raised.
TryToolCall(tool_call, project_id, backend) ==
    IF tool_call.name \notin available_functions
    THEN Outcome(Raise("ValueError"), FALSE)
    ELSE IF ~json_loads(tool_call.arguments).ok
    THEN Outcome(Raise("JSONDecodeError"), FALSE)
    ELSE CallFunction(json_loads(tool_call.arguments).value, project_id, backend)

\* except json.JSONDecodeError / except Exception of the iteration
ToolCallHandler(e) ==
    IF IsJSONDecodeError(e) THEN Return(ArgsErrorText)
    ELSE IF IsException(e) THEN Return(ExecErrorText)
    ELSE Raise(e)

\* the second completion call without a handler of its own
SecondHandler_Missing(e) == Raise(e)

\* except Exception around the second completion call
SecondHandler(e) ==
    IF IsException(e) THEN Return(SecondErrorText) ELSE Raise(e)

\* a handler that catches ValueError only
OuterHandler_OnlyValueError(e) ==
    IF e \in {"ValueError", "JSONDecodeError"} THEN Return(RequestErrorText)
    ELSE Raise(e)

\* except Exception around the body of prompt_ai
OuterHandler(e) ==
    IF IsException(e) THEN Return(RequestErrorText) ELSE Raise(e)

\* A `return` inside the outer try leaves prompt_ai; an exception that an
\* inner handler lets through reaches the outer handler.
ThroughOuter(r) == IF r.kind = "raise" THEN OuterHandler(r.exc) ELSE r

\* ------------------------------------------------------------ environment
Settings == {None, "", "set"}

\* Lines the user may type; input() may also raise.
Lines == { <<"q">>, <<"Q">>, <<" ", "q", " ">>, <<>>, <<" ", " ">>,
           <<" ", "h", "i", " ">> }

InputRaises == {"EOFError", "KeyboardInterrupt"}

QuitWord == <<"q">>

ValidArguments ==
    << Tok("lbrace"), Str(TaskNameParam), Tok("colon"), Str(<<"B", "u", "y">>),
       Tok("comma"), Str(DueOnParam), Tok("colon"),
       Str(<<"2", "0", "2", "5", "-", "0", "1", "-", "1", "6">>), Tok("rbrace") >>

\* the closing brace is missing
MalformedArguments ==
    << Tok("lbrace"), Str(TaskNameParam), Tok("colon"), Str(<<"B", "u", "y">>) >>

\* no due_on: the default applies
NameOnlyArguments ==
    << Tok("lbrace"), Str(TaskNameParam), Tok("colon"),
       Str(<<"P", "a", "y">>), Tok("rbrace") >>

BlankNameArguments ==
    << Tok("lbrace"), Str(TaskNameParam), Tok("colon"), Str(<<" ", " ">>),
       Tok("rbrace") >>

EmptyArguments == << Tok("lbrace"), Tok("rbrace") >>

ToolCall(id, name, arguments) == [id |-> id, name |-> name, arguments |-> arguments]

\* Tool calls the completion client may return.
Calls == { ToolCall("call_1", "create_asana_task", ValidArguments),
           ToolCall("call_2", "create_asana_task", MalformedArguments),
           ToolCall("call_3", "delete_asana_task", EmptyArguments),
           ToolCall("call_4", "create_asana_task", BlankNameArguments),
           ToolCall("call_5", "create_asana_task", NameOnlyArguments) }

Batches(n) == UNION { [1..k -> Calls] : k \in 1..n }

\* Task names and due dates a call may carry
TaskNames == { Str(<<>>), Str(<<" ", " ">>), Str(<<"B", "u", "y">>),
               Str(<<" ", "B", "u", "y", " ">>), Null }

\* "today" is also what an absent due_on defaults to
DueDates == { Str(TodayWord),
              Str(<<"2", "0", "2", "5", "-", "0", "1", "-", "1", "6">>),
              Str(<<"2", "0", "2", "4", "-", "1", "3", "-", "4", "0">>),
              Str(<<"2", "0", "2", "4", "-", "0", "2", "-", "2", "9">>),
              Str(<<"2", "0", "2", "5", "-", "0", "2", "-", "2", "9">>),
              Str(<<"2", "0", "2", "5", "-", "1", "-", "6">>),
              Str(<<"1", "6", "/", "0", "1", "/", "2", "0", "2", "5">>),
              Str(<<"t", "o", "m", "o", "r", "r", "o", "w">>),
              Str(<<>>),
              Null }

\* A call without due_on, next to the due dates a call may carry
AbsentDueOn == Tok("absent")

\* The arguments text of a call that names a task and, unless absent, a date
ArgumentsFor(task_name, due_on) ==
    IF due_on = AbsentDueOn
    THEN << Tok("lbrace"), Str(TaskNameParam), Tok("colon"), task_name,
            Tok("rbrace") >>
    ELSE << Tok("lbrace"), Str(TaskNameParam), Tok("colon"), task_name,
            Tok("comma"), Str(DueOnParam), Tok("colon"), due_on, Tok("rbrace") >>

ListArguments == << Tok("lbracket"), Tok("rbracket") >>

\* a key that create_asana_task does not take
ExtraKeyArguments ==
    << Tok("lbrace"), Str(TaskNameParam), Tok("colon"), Str(<<"B", "u", "y">>),
       Tok("comma"), Str(<<"n", "o", "t", "e", "s">>), Tok("colon"),
       Str(<<"x">>), Tok("rbrace") >>

ArgumentTexts ==
    { ArgumentsFor(n, d) : n \in TaskNames, d \in DueDates \cup {AbsentDueOn} }
        \cup {MalformedArguments, EmptyArguments, ListArguments, ExtraKeyArguments}

FunctionNames == {"create_asana_task", "delete_asana_task"}

\* Every tool call of the model, with what its dispatch gives for each project
\* setting and backend outcome: TryToolCall, tabulated.
AllCalls ==
    Calls \cup { ToolCall("call_1", name, arguments) :
                     name \in FunctionNames, arguments \in ArgumentTexts }

Dispatch ==
    [tool_call \in AllCalls, project_id \in Settings, backend \in BackendOutcomes |->
        TryToolCall(tool_call, project_id, backend)]

\* Contents of a completion message: a text, or None.
Contents == {ReplyText, None}

\* input() has not been called yet
NoInput == [kind |-> "none", text |-> <<>>]

LineRead(line) == [kind |-> "line", text |-> line]

InputRaised(e) == [kind |-> e, text |-> <<>>]

IdleHarness ==
    [task_name |-> Null, due_on |-> Null, project_id |-> None,
     result |-> Outcome(NoRet, FALSE)]

\* ------------------------------------------------------------------- Init
Init ==
    /\ pc = "init_openai"
    /\ env \in [OPENAI_API_KEY : Settings, ASANA_ACCESS_TOKEN : Settings,
                ASANA_PROJECT_ID : Settings]
    /\ exit_code = Running
    /\ messages = <<>>
    /\ tool_calls = <<>>
    /\ idx = 0
    /\ ret = NoRet
    /\ completions = <<>>
    /\ dispatched = 0
    /\ backend_calls = <<>>
    /\ turn_base = 0
    /\ turns = 0
    /\ harness = IdleHarness
    /\ last_read = NoInput

\* ---------------------------------------------------- module initialisation
\* Initialize OpenAI client: the key must be set and the probe must succeed.
StartOpenAI ==
    /\ pc = "init_openai"
    /\ \E probe \in {ReplyText, "APIError"} :
         /\ completions' = IF Unset(env.OPENAI_API_KEY) THEN completions
                           ELSE Append(completions, probe)
         /\ IF Unset(env.OPENAI_API_KEY) \/ probe = "APIError"
            THEN pc' = "exited" /\ exit_code' = 1
            ELSE pc' = "init_asana" /\ exit_code' = exit_code
    /\ UNCHANGED <<env, messages, tool_calls, idx, ret, dispatched,
                   backend_calls, turn_base, turns, harness, last_read>>

\* Initialize Asana client: the token must be set.
StartAsana ==
    /\ pc = "init_asana"
    /\ IF Unset(env.ASANA_ACCESS_TOKEN)
       THEN pc' = "exited" /\ exit_code' = 1
       ELSE pc' = "main" /\ exit_code' = exit_code
    /\ UNCHANGED <<env, messages, tool_calls, idx, ret, completions, dispatched,
                   backend_calls, turn_base, turns, harness, last_read>>

\* ------------------------------------------------------------------- main
MainStart ==
    /\ pc = "main"
    /\ messages' = << Message("system", SystemText, <<>>, None, None) >>
    /\ pc' = "input"
    /\ UNCHANGED <<env, exit_code, tool_calls, idx, ret, completions, dispatched,
                   backend_calls, turn_base, turns, harness, last_read>>

\* except KeyboardInterrupt: break; except Exception: report and loop on
MainHandler(e) == IF IsException(e) THEN "input" ELSE "done"

\* input() raises
InputFails ==
    /\ pc = "input"
    /\ \E e \in InputRaises :
         /\ pc' = MainHandler(e)
         /\ exit_code' = IF MainHandler(e) = "done" THEN 0 ELSE exit_code
         /\ last_read' = InputRaised(e)
    /\ UNCHANGED <<env, messages, tool_calls, idx, ret, completions,
                   dispatched, backend_calls, turn_base, turns, harness>>

\* One line read: quit, re-prompt, or append the user message and call prompt_ai.
ReadInput ==
    /\ pc = "input"
    /\ \E line \in Lines :
         LET user_input == strip(line) IN
         /\ last_read' = LineRead(line)
         /\ IF lower(user_input) = QuitWord
            THEN /\ pc' = "done"
                 /\ exit_code' = 0
                 /\ UNCHANGED <<messages, ret, completions, dispatched,
                                backend_calls, turn_base>>
            ELSE IF user_input = <<>>
            THEN /\ pc' = "input"
                 /\ UNCHANGED <<exit_code, messages, ret, completions, dispatched,
                                backend_calls, turn_base>>
            ELSE /\ Len(messages) + 2 <= MaxMessages
                 /\ messages' = Append(messages,
                        Message("user", user_input, <<>>, None, None))
                 /\ pc' = "first_completion"
                 /\ exit_code' = exit_code
                 /\ ret' = NoRet
                 /\ completions' = <<>>
                 /\ dispatched' = 0
                 /\ backend_calls' = <<>>
                 /\ turn_base' = Len(messages) + 1
    /\ UNCHANGED <<env, tool_calls, idx, turns, harness>>

\* --------------------------------------------------------------- prompt_ai
\* the assistant message that carries the calls is not appended
WithResponse_Forgotten(msgs, response_message) == msgs

\* messages.append(response_message)
WithResponse(msgs, response_message) == Append(msgs, response_message)

\* the batch walked from its end
CurrentCall_Reversed(calls, i) == calls[Len(calls) - i]

\* the tool_call of the iteration that follows idx processed calls
CurrentCall(calls, i) == calls[i + 1]

\* the message appended for a call that returned function_response
ToolMessage(tool_call, function_response) ==
    Message("tool", function_response, <<>>, tool_call.id, tool_call.name)

\* the outcome is kept and the model is asked again
Leave_Reprompt(r) ==
    /\ ret' = r
    /\ pc' = "first_completion"
    /\ tool_calls' = <<>>
    /\ idx' = 0

\* prompt_ai is left with r: a value returned or an exception raised to main.
Leave(r) ==
    /\ ret' = r
    /\ pc' = "returned"
    /\ tool_calls' = <<>>
    /\ idx' = 0

\* client.chat.completions.create(model, messages, tools) and what follows up
\* to the loop: the call raises, the completion has no choices, the message is
\* a plain reply (no tool calls), or it carries a batch of tool calls.
FirstCompletion ==
    /\ pc = "first_completion"
    /\ \/ /\ completions' = Append(completions, "APIError")
          /\ Leave(ThroughOuter(Raise("APIError")))
          /\ UNCHANGED messages
       \/ /\ completions' = Append(completions, "no_choices")
          /\ Leave(ThroughOuter(Raise("ValueError")))
          /\ UNCHANGED messages
       \/ \E content \in Contents :
            /\ completions' = Append(completions, content)
            /\ Leave(ThroughOuter(Return(content)))
            /\ UNCHANGED messages
       \/ /\ tool_calls' \in Batches(MaxMessages - Len(messages) - 2)
          /\ completions' = Append(completions, "tool_calls")
          /\ messages' = WithResponse(messages,
                 Message("assistant", None, tool_calls', None, None))
          /\ idx' = 0
          /\ pc' = "tool_loop"
          /\ UNCHANGED ret
    /\ UNCHANGED <<env, exit_code, dispatched, backend_calls, turn_base, turns,
                   harness, last_read>>

\* One iteration of `for tool_call in tool_calls`.
ToolCallStep ==
    /\ pc = "tool_loop"
    /\ idx < Len(tool_calls)
    /\ dispatched' = dispatched + 1
    /\ \E backend \in BackendOutcomes :
         LET tool_call == CurrentCall(tool_calls, idx)
             o == Dispatch[tool_call, env.ASANA_PROJECT_ID, backend]
         IN  /\ backend_calls' =
                    IF o.issued
                    THEN Append(backend_calls, [call |-> idx + 1, outcome |-> backend])
                    ELSE backend_calls
             /\ IF o.ret.kind = "return"
                THEN /\ messages' = Append(messages,
                            ToolMessage(tool_call, o.ret.value))
                     /\ idx' = idx + 1
                     /\ pc' = IF idx + 1 = Len(tool_calls)
                              THEN "second_completion" ELSE "tool_loop"
                     /\ UNCHANGED <<tool_calls, ret>>
                ELSE /\ Leave(ThroughOuter(ToolCallHandler(o.ret.exc)))
                     /\ UNCHANGED messages
    /\ UNCHANGED <<env, exit_code, completions, turn_base, turns, harness, last_read>>

\* client.chat.completions.create(model, messages) after the loop: the call
\* raises, choices is empty, or choices[0].message.content is returned.
SecondCompletion ==
    /\ pc = "second_completion"
    /\ \/ /\ completions' = Append(completions, "APIError")
          /\ Leave(ThroughOuter(SecondHandler("APIError")))
       \/ /\ completions' = Append(completions, "no_choices")
          /\ Leave(ThroughOuter(SecondHandler("IndexError")))
       \/ \E content \in Contents :
            /\ completions' = Append(completions, content)
            /\ Leave(ThroughOuter(Return(content)))
    /\ UNCHANGED <<env, exit_code, messages, dispatched, backend_calls,
                   turn_base, turns, harness, last_read>>

\* an answer that reports a failure is not recorded
WithAnswer_SkipFailures(msgs, ai_response) ==
    IF ai_response \in {ArgsErrorText, ExecErrorText, SecondErrorText,
                        RequestErrorText}
    THEN msgs
    ELSE Append(msgs, Message("assistant", ai_response, <<>>, None, None))

\* the oldest message is dropped to make room for the answer
WithAnswer_Trimmed(msgs, ai_response) ==
    Append(Tail(msgs), Message("assistant", ai_response, <<>>, None, None))

\* an answer without content is not recorded
WithAnswer_OnlyText(msgs, ai_response) ==
    IF ai_response = None THEN msgs
    ELSE Append(msgs, Message("assistant", ai_response, <<>>, None, None))

\* messages.append({"role": "assistant", "content": ai_response})
WithAnswer(msgs, ai_response) ==
    Append(msgs, Message("assistant", ai_response, <<>>, None, None))

\* main after prompt_ai: print and append the answer, or handle what it raised.
AfterTurn ==
    /\ pc = "returned"
    /\ IF ret.kind = "return"
       THEN /\ messages' = WithAnswer(messages, ret.value)
            /\ pc' = "input"
            /\ exit_code' = exit_code
       ELSE /\ pc' = MainHandler(ret.exc)
            /\ exit_code' = IF MainHandler(ret.exc) = "done" THEN 0 ELSE exit_code
            /\ UNCHANGED messages
    /\ turns' = turns + 1
    /\ UNCHANGED <<env, tool_calls, idx, ret, completions, dispatched,
                   backend_calls, turn_base, harness, last_read>>

Next ==
    \/ StartOpenAI
    \/ StartAsana
    \/ MainStart
    \/ InputFails
    \/ ReadInput
    \/ FirstCompletion
    \/ ToolCallStep
    \/ SecondCompletion
    \/ AfterTurn

Spec == Init /\ [][Next]_vars

\* Every completion call and every backend call returns or fails: a step of
\* prompt_ai that can be taken is eventually taken.
SpecFair ==
    /\ Spec
    /\ WF_vars(FirstCompletion)
    /\ WF_vars(ToolCallStep)
    /\ WF_vars(SecondCompletion)

\* ------------------------------------- create_asana_task called on its own
InitCreate ==
    /\ pc = "create_asana_task"
    /\ harness \in [task_name : TaskNames, due_on : DueDates,
                    project_id : Settings, result : {Outcome(NoRet, FALSE)}]
    /\ env = [OPENAI_API_KEY |-> "set", ASANA_ACCESS_TOKEN |-> "set",
              ASANA_PROJECT_ID |-> harness.project_id]
    /\ exit_code = Running
    /\ messages = <<>>
    /\ tool_calls = <<>>
    /\ idx = 0
    /\ ret = NoRet
    /\ completions = <<>>
    /\ dispatched = 0
    /\ backend_calls = <<>>
    /\ turn_base = 0
    /\ turns = 0
    /\ last_read = NoInput

CallCreateTask ==
    /\ pc = "create_asana_task"
    /\ \E backend \in BackendOutcomes :
         harness' = [harness EXCEPT !.result =
             create_asana_task(harness.task_name, harness.due_on,
                               env.ASANA_PROJECT_ID, backend)]
    /\ pc' = "called"
    /\ UNCHANGED <<env, exit_code, messages, tool_calls, idx, ret, completions,
                   dispatched, backend_calls, turn_base, turns, last_read>>

NextCreate == CallCreateTask

SpecCreate == InitCreate /\ [][NextCreate]_vars

\* ------------------------------ one requested tool call taken through the loop
\* The first completion of a turn has just returned one tool call.
InitDispatch ==
    /\ pc = "tool_loop"
    /\ env \in [OPENAI_API_KEY : {"set"}, ASANA_ACCESS_TOKEN : {"set"},
                ASANA_PROJECT_ID : Settings]
    /\ exit_code = Running
    /\ \E name \in FunctionNames, arguments \in ArgumentTexts :
         /\ tool_calls = << ToolCall("call_1", name, arguments) >>
         /\ messages =
              << Message("system", SystemText, <<>>, None, None),
                 Message("user", <<"h", "i">>, <<>>, None, None),
                 Message("assistant", None, tool_calls, None, None) >>
    /\ idx = 0
    /\ ret = NoRet
    /\ completions = <<ReplyText, "tool_calls">>
    /\ dispatched = 0
    /\ backend_calls = <<>>
    /\ turn_base = 2
    /\ turns = 0
    /\ harness = IdleHarness
    /\ last_read = LineRead(<<" ", "h", "i", " ">>)

NextDispatch ==
    \/ ToolCallStep
    \/ SecondCompletion
    \/ AfterTurn

SpecDispatch == InitDispatch /\ [][NextDispatch]_vars

\* ================================================================ claims
\* The batch of tool calls of the current (or last) turn, <<>> if it has none.
TurnBatch ==
    IF Len(messages) > turn_base /\ messages[turn_base + 1].role = "assistant"
    THEN messages[turn_base + 1].tool_calls
    ELSE <<>>

\* The i-th message after the assistant message of the turn is the tool-role
\* message of the i-th call of the batch.
HasToolMessage(i) ==
    /\ turn_base + 1 + i <= Len(messages)
    /\ messages[turn_base + 1 + i].role = "tool"
    /\ messages[turn_base + 1 + i].tool_call_id = TurnBatch[i].id

ArgumentsMalformed(call) == ~json_loads(call.arguments).ok

\* The dispatch of the call raises whatever the backend does: the name is not
\* registered, or the arguments parse and the function raises.
DispatchFails(call) ==
    \/ call.name \notin available_functions
    \/ /\ ~ArgumentsMalformed(call)
       /\ \A b \in BackendOutcomes :
            TryToolCall(call, env.ASANA_PROJECT_ID, b).ret.kind = "raise"

\* C1: when prompt_ai has returned and a call of the batch that was taken up
\* has arguments that do not parse as JSON, that call and every later call of
\* the batch have their tool-role message in the history.
C1_MalformedCallContained ==
    pc = "returned" =>
        \A i \in 1..Len(TurnBatch) :
            (ArgumentsMalformed(TurnBatch[i]) /\ dispatched >= i) =>
                \A j \in i..Len(TurnBatch) : HasToolMessage(j)

\* C2: when prompt_ai has returned and the dispatch of a call that was taken
\* up failed (unknown function, validation error), that call has its
\* tool-role message, the next call was taken up, and the second completion
\* was made.
C2_DispatchErrorContained ==
    pc = "returned" =>
        \A i \in 1..Len(TurnBatch) :
            (DispatchFails(TurnBatch[i]) /\ dispatched >= i) =>
                /\ HasToolMessage(i)
                /\ i < Len(TurnBatch) => dispatched > i
                /\ Len(completions) = 2

\* C3: under every assistant message that carries tool calls, the i-th
\* message of the run of tool-role messages that follows it carries the id of
\* the i-th call; during the loop the history is the history at entry, the
\* assistant message and one tool-role message per processed call, in order.
C3_ToolResultsInCallOrder ==
    /\ \A p \in 1..Len(messages) :
         (messages[p].role = "assistant" /\ messages[p].tool_calls # <<>>) =>
             \A i \in 1..(Len(messages) - p) :
                 (\A j \in 1..i : messages[p + j].role = "tool") =>
                     /\ i <= Len(messages[p].tool_calls)
                     /\ messages[p + i].tool_call_id = messages[p].tool_calls[i].id
    /\ pc \in {"tool_loop", "second_completion"} =>
         /\ Len(messages) = turn_base + 1 + idx
         /\ TurnBatch = tool_calls
         /\ \A i \in 1..idx : HasToolMessage(i)

\* Two calls with different ids have both been processed.
C3_Witness ==
    /\ pc = "second_completion"
    /\ Len(TurnBatch) >= 2
    /\ TurnBatch[1].id # TurnBatch[2].id
    /\ HasToolMessage(1)
    /\ HasToolMessage(2)

\* C4: when prompt_ai has returned and a create_task call of the turn failed
\* (ApiException or any other failure), the call it was issued for has a
\* tool-role message stating the failure, the second completion was made,
\* and its reply is what prompt_ai returned.
C4_BackendFailureReported ==
    pc = "returned" =>
        \A n \in 1..Len(backend_calls) :
            backend_calls[n].outcome # "created" =>
                /\ HasToolMessage(backend_calls[n].call)
                /\ messages[turn_base + 1 + backend_calls[n].call].content
                       = ApiExceptionText
                /\ Len(completions) = 2
                /\ completions[2] \in Contents => ret = Return(completions[2])

NonEmptyName(value) == value.t = "str" /\ strip(value.v) # <<>>

ValidDueOn(value) ==
    value.t = "str" /\ (value.v = TodayWord \/ strptime(value.v))

\* C5: called with a task name that is non-empty after trimming and a due date
\* that is "today" (also the default of an absent one) or a valid date,
\* create_asana_task returns a text and does not raise.
C5_CreateTaskNeverRaises ==
    (pc = "called" /\ NonEmptyName(harness.task_name) /\ ValidDueOn(harness.due_on))
        => harness.result.ret.kind = "return"

\* C6: whenever prompt_ai is left, it is left by returning a value; when the
\* second completion call failed the value is the generic text of that case.
C6_PromptAiAlwaysReturns ==
    pc = "returned" =>
        /\ ret.kind = "return"
        /\ (Len(completions) = 2 /\ completions[2] \in {"APIError", "no_choices"})
               => ret.value = SecondErrorText

\* prompt_ai has been left after a failed second completion call.
C6_Witness ==
    /\ pc = "returned"
    /\ Len(completions) = 2
    /\ completions[2] = "APIError"

\* C7: the step in which the first completion call fails or yields no choices
\* leaves prompt_ai with the generic text, with the history as it was, no
\* tool call taken up, no create_task call and no further completion call.
C7_FirstFailureAbortsTurn ==
    [][(pc = "first_completion" /\ Len(completions') = 1
            /\ completions'[1] \in {"APIError", "no_choices"})
        => /\ pc' = "returned"
           /\ ret' = Return(RequestErrorText)
           /\ messages' = messages
           /\ dispatched' = 0
           /\ backend_calls' = <<>>]_vars

\* prompt_ai has been left after a first completion without choices.
C7_Witness ==
    /\ pc = "returned"
    /\ completions = <<"no_choices">>
    /\ Len(messages) = turn_base

\* C8: when prompt_ai has returned from a turn whose first completion
\* requested tool calls, two completion calls were made and every call of the
\* batch was taken up in between; from a plain reply, one call was made.
C8_CompletionCallsPerTurn ==
    pc = "returned" =>
        IF TurnBatch # <<>>
        THEN Len(completions) = 2 /\ dispatched = Len(TurnBatch)
        ELSE Len(completions) = 1

\* C9: every tool-role message has, before it, an assistant message separated
\* from it by tool-role messages only, whose tool_calls hold its tool_call_id.
C9_ToolMessagesFollowTheirCalls ==
    \A q \in 1..Len(messages) :
        messages[q].role = "tool" =>
            \E p \in 1..(q - 1) :
                /\ messages[p].role = "assistant"
                /\ \A r \in (p + 1)..q : messages[r].role = "tool"
                /\ \E i \in 1..Len(messages[p].tool_calls) :
                       messages[p].tool_calls[i].id = messages[q].tool_call_id

\* A tool-role message of an earlier turn lies in the history of a later turn.
C9_Witness ==
    \E q \in 1..Len(messages) :
        /\ messages[q].role = "tool"
        /\ \E u \in (q + 1)..Len(messages) : messages[u].role = "user"

RECURSIVE RequestedCalls(_)
\* tool calls requested in the first n messages
RequestedCalls(n) ==
    IF n = 0 THEN 0 ELSE RequestedCalls(n - 1) + Len(messages[n].tool_calls)

ToolMessages(from) ==
    Cardinality({i \in from..Len(messages) : messages[i].role = "tool"})

CallingMessages ==
    Cardinality({i \in 1..Len(messages) : messages[i].tool_calls # <<>>})

\* C10 as stated, for sessions in which every requested call got its
\* tool-role message: between turns the history has 1 + 2N messages plus two
\* for every tool call requested.
C10_LengthAsClaimed ==
    (pc = "input" /\ ToolMessages(1) = RequestedCalls(Len(messages)))
        => Len(messages) = 1 + 2 * turns + 2 * RequestedCalls(Len(messages))

\* C10 amended: between turns the history has the system message, two
\* messages per turn, one assistant message per batch and the tool-role
\* messages; the last turn added, beyond its two, nothing when it had no tool
\* calls and otherwise 1 + j messages, j <= k being the tool-role messages of
\* its k calls, and j = k when the second completion was reached.
C10_LengthByTurn ==
    pc = "input" =>
        /\ Len(messages) = 1 + 2 * turns + CallingMessages + ToolMessages(1)
        /\ turns >= 1 =>
             /\ Len(messages) = turn_base + 1 +
                    (IF TurnBatch = <<>> THEN 0 ELSE 1 + ToolMessages(turn_base + 1))
             /\ ToolMessages(turn_base + 1) <= Len(TurnBatch)
             /\ Len(completions) = 2 => ToolMessages(turn_base + 1) = Len(TurnBatch)

\* A turn with two tool calls, both answered, has ended: it added three
\* messages beyond its two.
C10_Witness ==
    /\ pc = "input"
    /\ Len(TurnBatch) = 2
    /\ ToolMessages(turn_base + 1) = 2
    /\ Len(messages) = turn_base + 4

\* The history exists: main has created it.
SessionPcs == {"input", "first_completion", "tool_loop", "second_completion",
               "returned", "done"}

IsPrefix(a, b) == Len(a) <= Len(b) /\ SubSeq(b, 1, Len(a)) = a

\* C11: once main has created the history, its first message is the system
\* message and no other message is one; every step leaves the history as it
\* is or appends one message to it, so the history before a step is a prefix
\* of the history after it.
C11_HistoryAppendOnly ==
    /\ [](pc \in SessionPcs =>
            /\ messages # <<>>
            /\ messages[1].role = "system"
            /\ \A i \in 2..Len(messages) : messages[i].role # "system")
    /\ [][/\ IsPrefix(messages, messages')
          /\ Len(messages') <= Len(messages) + 1]_vars

\* A second turn is under way on top of the history of a first one.
C11_Witness ==
    /\ pc = "tool_loop"
    /\ turns = 1
    /\ Len(messages) >= 5
    /\ messages[1].role = "system"

\* The step reads a line.
ReadsLine == pc = "input" /\ last_read'.kind = "line"

BlankLine(line) == \A i \in 1..Len(line) : line[i] \in {" ", "\t"}

QuitLine(line) == strip(line) \in {<<"q">>, <<"Q">>}

\* C12: a step that reads a line which is neither blank nor the quit
\* sentinel appends the user message with the trimmed line and enters
\* prompt_ai; the step that follows prompt_ai appends the assistant message
\* with the returned answer; between turns that message is the last one.
C12_UserAndAnswerAppended ==
    /\ [][(ReadsLine /\ ~BlankLine(last_read'.text) /\ ~QuitLine(last_read'.text))
            => /\ messages' = Append(messages,
                      Message("user", strip(last_read'.text), <<>>, None, None))
               /\ pc' = "first_completion"]_vars
    /\ [][pc = "returned"
            => /\ ret.kind = "return"
               /\ messages' = Append(messages,
                      Message("assistant", ret.value, <<>>, None, None))
               /\ pc' = "input"]_vars
    /\ []((pc = "input" /\ turns >= 1)
            => /\ messages[Len(messages)].role = "assistant"
               /\ messages[Len(messages)].content = ret.value
               /\ messages[Len(messages)].tool_calls = <<>>)

\* Between turns, the answer recorded last is a generic failure text.
C12_Witness ==
    /\ pc = "input"
    /\ turns >= 1
    /\ messages[Len(messages)].role = "assistant"
    /\ messages[Len(messages)].content = ExecErrorText
    /\ messages[turn_base].role = "user"
    /\ messages[turn_base].content = <<"h", "i">>

\* C13: a step that reads a blank line changes neither the history nor the
\* logs of completion, dispatch and create_task calls, and main prompts again.
C13_BlankLineIgnored ==
    [][(ReadsLine /\ BlankLine(last_read'.text))
         => /\ pc' = "input"
            /\ messages' = messages
            /\ completions' = completions
            /\ dispatched' = dispatched
            /\ backend_calls' = backend_calls
            /\ turns' = turns]_vars

\* A line of blanks has been read after a turn.
C13_Witness ==
    /\ pc = "input"
    /\ last_read = LineRead(<<" ", " ">>)
    /\ turns >= 1

\* C14: a step that reads the quit sentinel ends the loop and changes neither
\* the history nor the logs of calls; no step is taken once the loop has ended.
C14_QuitEndsSession ==
    [][/\ pc # "done"
       /\ (ReadsLine /\ QuitLine(last_read'.text))
            => /\ pc' = "done"
               /\ messages' = messages
               /\ completions' = completions
               /\ dispatched' = dispatched
               /\ backend_calls' = backend_calls
               /\ turns' = turns]_vars

\* The loop has ended on an upper-case sentinel after a turn.
C14_Witness ==
    /\ pc = "done"
    /\ last_read = LineRead(<<"Q">>)
    /\ turns >= 1

\* the text is four digits, a dash, two digits, a dash, two digits
StrictFormat(s) ==
    /\ Len(s) = 10
    /\ s[5] = "-" /\ s[8] = "-"
    /\ \A i \in (1..10) \ {5, 8} : s[i] \in Digits

\* The requested call may reach the backend: registered name, arguments that
\* parse to an object naming a task that is non-empty after trimming, and a
\* due date that is absent, "today", or a real date written YYYY-MM-DD.
Eligible(call) ==
    /\ call.name \in available_functions
    /\ ~ArgumentsMalformed(call)
    /\ LET args == json_loads(call.arguments).value IN
         /\ args.t = "dict"
         /\ TaskNameParam \in DOMAIN args.v
         /\ NonEmptyName(args.v[TaskNameParam])
         /\ DueOnParam \in DOMAIN args.v =>
              /\ args.v[DueOnParam].t = "str"
              /\ \/ args.v[DueOnParam].v = TodayWord
                 \/ /\ StrictFormat(args.v[DueOnParam].v)
                    /\ strptime(args.v[DueOnParam].v)

\* C15: every create_task call issued to the backend was issued for a tool
\* call with a registered name, arguments that parsed, a task name non-empty
\* after trimming and a due date that is "today" or a valid YYYY-MM-DD date,
\* and while the project identifier was configured.
C15_BackendOnlyForValidCalls ==
    \A n \in 1..Len(backend_calls) :
        /\ Eligible(TurnBatch[backend_calls[n].call])
        /\ env.ASANA_PROJECT_ID \notin {None, ""}


\* The variable is absent from the environment or empty.
Missing(setting) == setting \in {None, ""}

\* The probe completion call of the startup has just failed.
ProbeFails == pc = "init_openai" /\ completions' = <<"APIError">>

\* C16: the session (main and its loop) is reached only with the API key and
\* the access token present; a missing key, a failed probe or a missing token
\* ends the startup in an exit; the exit has status 1, with no history, no
\* input read and no turn run, and nothing happens after it.
C16_LoopOnlyAfterStartup ==
    /\ [](pc \in SessionPcs \cup {"main"} =>
            /\ ~Missing(env.OPENAI_API_KEY)
            /\ ~Missing(env.ASANA_ACCESS_TOKEN))
    /\ [](pc = "exited" =>
            /\ exit_code = 1
            /\ messages = <<>>
            /\ last_read = NoInput
            /\ turns = 0
            /\ dispatched = 0)
    /\ [][(pc = "init_openai" /\ Missing(env.OPENAI_API_KEY)) =>
            (pc' = "exited" /\ completions' = <<>>)]_vars
    /\ [][ProbeFails => pc' = "exited"]_vars
    /\ [][(pc = "init_asana" /\ Missing(env.ASANA_ACCESS_TOKEN)) =>
            pc' = "exited"]_vars
    /\ [][pc = "exited" => UNCHANGED vars]_vars

\* The key was present and the probe failed: the process has exited.
C16_Witness ==
    /\ pc = "exited"
    /\ env.OPENAI_API_KEY = "set"
    /\ completions = <<"APIError">>
    /\ exit_code = 1

InPromptAi == pc \in {"first_completion", "tool_loop", "second_completion"}

\* C17: a turn that has started its first completion call eventually has
\* prompt_ai returned to main; up to then at most two completion calls are
\* made and each requested call is dispatched at most once, in order; the
\* loop and the second completion never lead back to the first completion or
\* to another round of the loop.
C17_TurnTerminates ==
    /\ (pc = "first_completion") ~> (pc = "returned")
    /\ [](pc \in {"first_completion", "tool_loop", "second_completion", "returned"} =>
            /\ Len(completions) <= 2
            /\ dispatched <= Len(TurnBatch))
    /\ [](pc \in {"tool_loop", "second_completion"} => dispatched = idx)
    /\ [][pc = "tool_loop" =>
            pc' \in {"tool_loop", "second_completion", "returned"}]_vars
    /\ [][pc = "second_completion" => pc' = "returned"]_vars
    /\ [][InPromptAi => Len(completions') <= Len(completions) + 1]_vars

\* A turn with two requested calls has ended after both were dispatched and
\* the second completion was made.
C17_Witness ==
    /\ pc = "returned"
    /\ Len(TurnBatch) = 2
    /\ dispatched = 2
    /\ Len(completions) = 2
    /\ ret.kind = "return"

\* C18: while the session waits for input, every assistant message that
\* carries tool calls is followed at once by one tool-role message for each of
\* its calls, in order, before any other message.
C18_ToolCallsAnswered ==
    pc = "input" =>
        \A p \in 1..Len(messages) :
            (messages[p].role = "assistant" /\ messages[p].tool_calls # <<>>) =>
                \A i \in 1..Len(messages[p].tool_calls) :
                    /\ p + i <= Len(messages)
                    /\ messages[p + i].role = "tool"
                    /\ messages[p + i].tool_call_id = messages[p].tool_calls[i].id

\* C19: what prompt_ai returns is a text, never None, and so every assistant
\* message without tool calls in the history has a text as its content.
C19_AnswerIsText ==
    /\ (pc = "returned" /\ ret.kind = "return") => ret.value # None
    /\ \A p \in 1..Len(messages) :
         (messages[p].role = "assistant" /\ messages[p].tool_calls = <<>>) =>
             messages[p].content # None

====
